---- MODULE Spec2Model ----
(***************************************************************************)
(* Model of pagepipe's crawl package: URL rules (filter.go), the BFS       *)
(* Queue (queue.go) and the discovery orchestrator (discover.go).          *)
(*                                                                         *)
(* A URL string is a sequence of lexical tokens.  "https://x.com/a/#f" is  *)
(* <<"https:", "/", "/", "x.com", "/", "a", "/", "#", "f">>.  url.Parse    *)
(* and URL.String are modelled on that representation, so NormalizeURL is  *)
(* a genuine string -> string function.                                    *)
(***************************************************************************)
EXTENDS Integers, Sequences, FiniteSets, TLC

VARIABLES
    pc,        \* position of the DiscoverAll call
    baseURL,   \* DiscoverAll's baseURL argument
    site,      \* the site served by the injected Fetcher
    domain,    \* DiscoverAll's local "domain" (parsed.Host)
    resp,      \* sitemap HTTP response held by discoverFromSitemap
    queue,     \* the Queue of discoverFromLinks: [items, visited, idx]
    smErr,     \* DiscoverAll's local err of discoverFromSitemap ("none": not yet)
    result,    \* the []string DiscoverAll returns
    err,       \* the error DiscoverAll returns ("nil" or a message)
    fetched,   \* URLs passed to fetcher.Fetch, in call order
    failures,  \* number of failed page fetches / extractions so far
    via,       \* which path produced the result: "none", "sitemap", "bfs"
    added,     \* Queue harness: every URL passed to Add, in call order
    ustr,      \* URL-rules harness: the current URL string
    uprev,     \* URL-rules harness: the string before the last NormalizeURL
    uapplied,  \* URL-rules harness: number of NormalizeURL applications
    returned,  \* Queue harness: every URL returned by Next, in call order
    verdict,   \* URL-rules harness: the filter called and what it returned
    anchors,   \* extractor harness: the a[href] values of the document
    emitted,   \* extractor harness: whether extractLinks ran and its links
    heap,      \* concurrent harness: the allocated Queues, by reference
    runs,      \* concurrent harness: the locals of each DiscoverAll call
    adders,    \* shared-Queue harness: each worker's position in Add
    overlap    \* shared-Queue harness: URLs whose Add calls interleaved

vars == <<pc, baseURL, site, domain, resp, queue, smErr, result, err,
          fetched, failures, via, added, ustr, uprev, uapplied, returned,
          verdict, anchors, emitted, heap, runs, adders, overlap>>

----------------------------------------------------------------------------
(* Generic sequence helpers                                                *)

\* F(v) with v computed once: the one-element set makes v a value before F
\* uses it, where a LET definition is an expression that TLC evaluates again
\* at every use when it evaluates ENABLED.
Let(F(_), v) == CHOOSE r \in {F(x) : x \in {v}} : TRUE

Last(s) == s[Len(s)]

Front(s) == SubSeq(s, 1, Len(s) - 1)

Range(s) == {s[i] : i \in 1..Len(s)}

\* Index of the first occurrence of token t in s, or 0.
IndexOf(s, t) ==
    IF \E i \in 1..Len(s) : s[i] = t
    THEN CHOOSE i \in 1..Len(s) : s[i] = t /\ \A j \in 1..(i - 1) : s[j] # t
    ELSE 0

\* Index of the last occurrence of token t in s, or 0.
LastIndexOf(s, t) ==
    IF \E i \in 1..Len(s) : s[i] = t
    THEN CHOOSE i \in 1..Len(s) : s[i] = t /\ \A j \in (i + 1)..Len(s) : s[j] # t
    ELSE 0

HasPrefix(s, p) == Len(s) >= Len(p) /\ SubSeq(s, 1, Len(p)) = p

\* strings.TrimSuffix(s, "/")
TrimSuffixSlash(s) == IF Len(s) > 0 /\ Last(s) = "/" THEN Front(s) ELSE s

----------------------------------------------------------------------------
(* Token alphabet                                                          *)

SchemeTok == "https:"

\* A token holding an invalid percent-escape: url.Parse fails on it.
BadEscape == "%zz"

Digits == <<"0", "1", "2", "3", "4", "5", "6", "7", "8", "9">>

\* Tokens that begin with '.', i.e. start a file extension.
ExtTokens == {".png", ".PNG", ".JPG", ".pdf", ".html", ".css", ".js"}

\* strings.ToLower on an extension token.
ToLower(t) ==
    CASE t = ".PNG" -> ".png"
      [] t = ".JPG" -> ".jpg"
      [] OTHER -> t

----------------------------------------------------------------------------
(* net/url: Parse and URL.String on token sequences                        *)

NoURL == [ok |-> FALSE, scheme |-> "", opaque |-> <<>>, host |-> <<>>,
          path |-> <<>>, omitHost |-> FALSE, forceQuery |-> FALSE,
          query |-> <<>>, fragment |-> <<>>]

\* The authority and path of url.Parse: after "//" the host runs up to the
\* next '/', the rest is the path; without "//" everything is path.  s is
\* the index of the first '/' after the "//".
ParseAuthority(u, rest, hasAuth, s) ==
    IF ~hasAuth
    THEN [u EXCEPT !.path = rest,
                   !.omitHost = (u.scheme # "" /\ HasPrefix(rest, <<"/">>))]
    ELSE IF s = 0
    THEN [u EXCEPT !.host = SubSeq(rest, 3, Len(rest))]
    ELSE [u EXCEPT !.host = SubSeq(rest, 3, s - 1),
                   !.path = SubSeq(rest, s, Len(rest))]

\* Index in rest (which begins with "//") of the first '/' after the "//".
AuthorityEnd(rest) ==
    IF \E i \in 3..Len(rest) : rest[i] = "/"
    THEN CHOOSE i \in 3..Len(rest) :
            rest[i] = "/" /\ \A j \in 3..(i - 1) : rest[j] # "/"
    ELSE 0

\* url.Parse after the query is cut: a scheme followed by a rootless rest is
\* opaque; otherwise the authority and the path follow.
ParseRest(u, rest) ==
    IF u.scheme # "" /\ rest # <<>> /\ rest[1] # "/"
    THEN [u EXCEPT !.opaque = rest]
    ELSE Let(LAMBDA s :
               ParseAuthority(u, rest,
                              /\ HasPrefix(rest, <<"/", "/">>)
                              /\ (u.scheme # "" \/ ~HasPrefix(rest, <<"/", "/", "/">>)),
                              s),
             AuthorityEnd(rest))

\* url.Parse after the scheme is cut: the query is cut at the first '?' (q).
ParseQuery(u, rest0, q) ==
    IF q = 0 THEN ParseRest(u, rest0)
    ELSE Let(LAMBDA rest :
               ParseRest([u EXCEPT !.query = SubSeq(rest0, q + 1, Len(rest0)),
                                   !.forceQuery = (q = Len(rest0))],
                         rest),
             SubSeq(rest0, 1, q - 1))

\* url.Parse after the fragment is cut: the scheme.
ParseScheme(u, nofrag) ==
    IF Len(nofrag) > 0 /\ nofrag[1] = SchemeTok
    THEN Let(LAMBDA rest0 :
               Let(LAMBDA q : ParseQuery([u EXCEPT !.scheme = SchemeTok], rest0, q),
                   IndexOf(rest0, "?")),
             Tail(nofrag))
    ELSE Let(LAMBDA q : ParseQuery(u, nofrag, q), IndexOf(nofrag, "?"))

\* url.Parse with the index h of the first '#': the fragment is cut there.
ParseFragment(raw, h) ==
    IF h = 0 THEN ParseScheme([NoURL EXCEPT !.ok = TRUE], raw)
    ELSE Let(LAMBDA nofrag :
               ParseScheme([NoURL EXCEPT !.ok = TRUE,
                                         !.fragment = SubSeq(raw, h + 1, Len(raw))],
                           nofrag),
             SubSeq(raw, 1, h - 1))

\* url.Parse(raw): cut the fragment at the first '#', then the scheme, the
\* query at the first '?', the authority after "//" up to the next '/'; the
\* rest is the path.  An invalid escape anywhere is an error.
Parse(raw) ==
    Let(LAMBDA r :
          IF BadEscape \in Range(r) THEN NoURL
          ELSE Let(LAMBDA h : ParseFragment(r, h), IndexOf(r, "#")),
        raw)

\* (*URL).String()
String(u) ==
    LET sch  == IF u.scheme # "" THEN <<u.scheme>> ELSE <<>>
        auth == IF /\ u.scheme # "" \/ u.host # <<>>
                   /\ ~(u.omitHost /\ u.host = <<>>)
                   /\ u.host # <<>> \/ u.path # <<>>
                THEN <<"/", "/">> \o u.host ELSE <<>>
        sep  == IF u.path # <<>> /\ u.path[1] # "/" /\ u.host # <<>>
                THEN <<"/">> ELSE <<>>
        body == IF u.opaque # <<>> THEN u.opaque ELSE auth \o sep \o u.path
        qry  == IF u.forceQuery \/ u.query # <<>> THEN <<"?">> \o u.query ELSE <<>>
        frg  == IF u.fragment # <<>> THEN <<"#">> \o u.fragment ELSE <<>>
    IN  sch \o body \o qry \o frg

----------------------------------------------------------------------------
(* filter.go: URL rules                                                    *)

\* staticExtensions: file extensions to skip during crawling.
staticExtensions ==
    {".png", ".jpg", ".jpeg", ".gif", ".svg", ".webp", ".ico", ".bmp",
     ".css", ".js", ".mjs", ".woff", ".woff2", ".ttf", ".eot",
     ".mp4", ".webm", ".mp3", ".wav", ".zip", ".tar", ".gz",
     ".pdf", ".doc", ".docx", ".xls", ".xlsx"}

\* path.Ext(p): the suffix beginning at the final dot in the final
\* slash-separated element of p; empty if there is no dot.
Ext(p) ==
    Let(LAMBDA elem :
          Let(LAMBDA dots :
                IF dots = {} THEN <<>>
                ELSE SubSeq(elem, CHOOSE i \in dots : \A j \in dots : j <= i,
                            Len(elem)),
              {i \in 1..Len(elem) : elem[i] \in ExtTokens}),
        SubSeq(p, LastIndexOf(p, "/") + 1, Len(p)))

\* IsSameDomain accepting every host that ends with the domain.
IsSameDomain_Subdomain(rawURL, dom) ==
    LET parsed == Parse(rawURL)
    IN  IF ~parsed.ok THEN FALSE
        ELSE /\ Len(parsed.host) >= Len(dom)
             /\ SubSeq(parsed.host, Len(parsed.host) - Len(dom) + 1,
                       Len(parsed.host)) = dom

\* IsSameDomain(rawURL, domain)
IsSameDomain(rawURL, dom) ==
    LET parsed == Parse(rawURL)
    IN  IF ~parsed.ok THEN FALSE ELSE parsed.host = dom

\* IsStaticAsset without strings.ToLower.
IsStaticAsset_CaseSensitive(rawURL) ==
    Let(LAMBDA parsed :
          IF ~parsed.ok THEN FALSE
          ELSE Let(LAMBDA ext : Len(ext) = 1 /\ ext[1] \in staticExtensions,
                   Ext(parsed.path)),
        Parse(rawURL))

\* IsStaticAsset(rawURL): the lower-cased extension is in the denylist.  An
\* extension of several tokens (".png" followed by more characters) is no
\* denylist entry.
IsStaticAsset(rawURL) ==
    Let(LAMBDA parsed :
          IF ~parsed.ok THEN FALSE
          ELSE Let(LAMBDA ext : Len(ext) = 1 /\ ToLower(ext[1]) \in staticExtensions,
                   Ext(parsed.path)),
        Parse(rawURL))

\* NormalizeURL(rawURL): strips the fragment and one trailing slash.
NormalizeURL(rawURL) ==
    Let(LAMBDA parsed :
          IF ~parsed.ok THEN rawURL
          ELSE IF parsed.path # <<"/">>
          THEN String([parsed EXCEPT !.fragment = <<>>,
                                     !.path = TrimSuffixSlash(parsed.path)])
          ELSE String([parsed EXCEPT !.fragment = <<>>]),
        Parse(rawURL))

----------------------------------------------------------------------------
(* queue.go: BFS queue with deduplication                                  *)

\* NewQueue()
NewQueue == [items |-> <<>>, visited |-> {}, idx |-> 0]

\* Add without the visited test: every call appends.
QAdd_NoDedup(q, url) ==
    [q EXCEPT !.visited = q.visited \cup {url},
              !.items = Append(q.items, url)]

\* Add that puts a new URL at the front of items.
QAdd_Prepend(q, url) ==
    IF url \in q.visited
    THEN q
    ELSE [q EXCEPT !.visited = q.visited \cup {url},
                   !.items = <<url>> \o q.items]

\* (q *Queue) Add(url)
QAdd(q, url) ==
    IF url \in q.visited
    THEN q
    ELSE [q EXCEPT !.visited = q.visited \cup {url},
                   !.items = Append(q.items, url)]

\* (q *Queue) HasNext()
QHasNext(q) == q.idx < Len(q.items)

\* (q *Queue) Next(): the returned URL; QAdvance is its effect on q.
QNextURL(q) == q.items[q.idx + 1]

\* Next without q.idx++.
QAdvance_Stuck(q) == q

\* Next advancing the cursor by two.
QAdvance_Skip(q) == [q EXCEPT !.idx = q.idx + 2]

QAdvance(q) == [q EXCEPT !.idx = q.idx + 1]

\* (q *Queue) Visited()
QVisited(q) == Cardinality(q.visited)

\* (q *Queue) All()
QAll(q) == q.items

----------------------------------------------------------------------------
(* discover.go: link extraction                                            *)

\* strings.Split(p, "/") on a token sequence: the slash-separated elements.
RECURSIVE SplitSlash(_)
SplitSlash(p) ==
    LET i == IndexOf(p, "/")
    IN  IF i = 0 THEN <<p>>
        ELSE <<SubSeq(p, 1, i - 1)>> \o SplitSlash(SubSeq(p, i + 1, Len(p)))

\* The loop of net/url's resolvePath: drop "." elements, let ".." remove the
\* element before it.  dst always begins with "/".
RECURSIVE ResolveElems(_, _, _)
ResolveElems(elems, dst, first) ==
    IF elems = <<>> THEN dst
    ELSE LET e == Head(elems)
             str == Tail(dst)
             index == LastIndexOf(str, "/")
         IN  IF e = <<".">> THEN ResolveElems(Tail(elems), dst, FALSE)
             ELSE IF e = <<"..">>
             THEN IF index = 0
                  THEN ResolveElems(Tail(elems), <<"/">>, TRUE)
                  ELSE ResolveElems(Tail(elems),
                                    <<"/">> \o SubSeq(str, 1, index - 1), first)
             ELSE ResolveElems(Tail(elems),
                               dst \o (IF first THEN <<>> ELSE <<"/">>) \o e,
                               FALSE)

\* net/url resolvePath(base, ref) once the two are joined into full.
resolveFull(full) ==
    Let(LAMBDA elems :
          Let(LAMBDA r : IF Len(r) > 1 /\ r[2] = "/" THEN Tail(r) ELSE r,
              IF Last(elems) \in {<<".">>, <<"..">>}
              THEN ResolveElems(elems, <<"/">>, TRUE) \o <<"/">>
              ELSE ResolveElems(elems, <<"/">>, TRUE)),
        SplitSlash(full))

\* net/url resolvePath(base, ref)
resolvePath(base, ref) ==
    Let(LAMBDA full : IF full = <<>> THEN <<>> ELSE resolveFull(full),
        IF ref = <<>> THEN base
        ELSE IF ref[1] # "/"
        THEN SubSeq(base, 1, LastIndexOf(base, "/")) \o ref
        ELSE ref)

\* (*URL).ResolveReference(ref)
ResolveReference(base, ref) ==
    LET url == [ref EXCEPT !.scheme = IF ref.scheme = "" THEN base.scheme
                                      ELSE ref.scheme]
    IN  IF ref.scheme # "" \/ ref.host # <<>>
        THEN [url EXCEPT !.path = resolvePath(ref.path, <<>>)]
        ELSE IF ref.opaque # <<>>
        THEN [url EXCEPT !.host = <<>>, !.path = <<>>]
        ELSE LET keep == ref.path = <<>> /\ ~ref.forceQuery /\ ref.query = <<>>
                 u1 == IF keep
                       THEN [url EXCEPT !.query = base.query,
                                        !.fragment = IF ref.fragment = <<>>
                                                     THEN base.fragment
                                                     ELSE ref.fragment]
                       ELSE url
             IN  IF ref.path = <<>> /\ base.opaque # <<>>
                 THEN [u1 EXCEPT !.opaque = base.opaque, !.host = <<>>,
                                 !.path = <<>>]
                 ELSE [u1 EXCEPT !.host = base.host, !.omitHost = base.omitHost,
                                 !.path = resolvePath(base.path, ref.path)]

\* The href prefixes resolveURL skips.
SkippedPrefixes == {"mailto:", "javascript:", "tel:", "#"}

\* resolveURL without the test of the skipped prefixes.
resolveURL_NoSkip(href, base) ==
    Let(LAMBDA parsed :
          IF ~parsed.ok THEN <<>>
          ELSE Let(LAMBDA resolved : String([resolved EXCEPT !.fragment = <<>>]),
                   ResolveReference(base, parsed)),
        Parse(href))

\* resolveURL(href, base): the resolved URL string, or <<>> for "".
resolveURL(href, base) ==
    IF href # <<>> /\ href[1] \in SkippedPrefixes THEN <<>>
    ELSE Let(LAMBDA parsed :
               IF ~parsed.ok THEN <<>>
               ELSE Let(LAMBDA resolved : String([resolved EXCEPT !.fragment = <<>>]),
                        ResolveReference(base, parsed)),
             Parse(href))

\* The callback of extractLinks on one a[href]: the links it appends.
extractLink(href, base) ==
    IF href = <<>> THEN <<>>
    ELSE Let(LAMBDA resolved : IF resolved = <<>> THEN <<>> ELSE <<resolved>>,
             resolveURL(href, base))

\* The walk over html[from..to] with later anchors first.
RECURSIVE extractLinksRange_Reversed(_, _, _, _)
extractLinksRange_Reversed(html, from, to, base) ==
    IF from > to THEN <<>>
    ELSE IF from = to THEN extractLink(html[from], base)
    ELSE extractLinksRange_Reversed(html, ((from + to) \div 2) + 1, to, base)
         \o extractLinksRange_Reversed(html, from, (from + to) \div 2, base)

\* extractLinks over html[from..to], walked by halves in document order.
RECURSIVE extractLinksRange(_, _, _, _)
extractLinksRange(html, from, to, base) ==
    IF from > to THEN <<>>
    ELSE IF from = to THEN extractLink(html[from], base)
    ELSE extractLinksRange(html, from, (from + to) \div 2, base)
         \o extractLinksRange(html, ((from + to) \div 2) + 1, to, base)

\* extractLinks(html, baseURL): html is the document's a[href] values in
\* document order; empty hrefs and hrefs that resolve to "" are dropped.
extractLinks(html, pageURL) ==
    Let(LAMBDA doc :
          Let(LAMBDA base : extractLinksRange(doc, 1, Len(doc), base),
              Parse(pageURL)),
        html)

----------------------------------------------------------------------------
(* Bounds and the inputs drawn from them                                   *)

\* const maxPages = 100 in discoverFromLinks.
maxPages == 100

\* Number of numbered pages of a generated site (more than maxPages).
NumPages == 120

\* Links per page of the "dense" site.
DenseFan == 24

\* Failed fetches / extractions allowed in one BFS run.
MaxFailures == 2

\* Longest sitemap (number of <url> entries).
MaxSitemapLen == 3

Home == <<SchemeTok, "/", "/", "x.com">>

Other == <<SchemeTok, "/", "/", "y.com">>

\* Decimal digits of n, most significant first.
RECURSIVE NumToks(_)
NumToks(n) ==
    IF n < 10 THEN <<Digits[n + 1]>>
    ELSE NumToks(n \div 10) \o <<Digits[(n % 10) + 1]>>

DigitVal(t) == CHOOSE d \in 0..9 : Digits[d + 1] = t

RECURSIVE ToksNum(_)
ToksNum(ts) ==
    IF Len(ts) = 1 THEN DigitVal(ts[1])
    ELSE 10 * ToksNum(Front(ts)) + DigitVal(Last(ts))

\* URL of numbered page n: https://x.com/<n>
PageURL(n) == Home \o <<"/">> \o NumToks(n)

\* The number of the page url names, or -1 if it is no numbered page.
PageNum(url) ==
    LET ts == SubSeq(url, Len(Home) + 2, Len(url))
    IN  IF /\ HasPrefix(url, Home \o <<"/">>)
           /\ ts # <<>>
           /\ \A i \in 1..Len(ts) : ts[i] \in Range(Digits)
        THEN ToksNum(ts) ELSE -1

Root == Home \o <<"/">>

Sites == {"cycle", "fan", "dense", "mixed"}

\* The a[href] values, in document order, of the page the site serves at url.
PageHrefs(s, url) ==
    LET n == PageNum(url)
    IN  CASE s = "cycle" ->
               IF n >= 0 THEN <<PageURL((n + 1) % NumPages)>>
               ELSE <<PageURL(0)>>
          [] s = "fan" ->
               IF n >= 0 THEN <<<<"/">>>>
               ELSE [i \in 1..NumPages |-> <<"/">> \o NumToks(i - 1)]
          [] s = "dense" ->
               IF n >= 0
               THEN [i \in 1..DenseFan |->
                        PageURL((DenseFan * n + i) % NumPages)
                            \o <<"/", "#", "top">>]
               ELSE <<PageURL(0)>>
          [] s = "mixed" ->
               IF url = Root
               THEN << <<"a", "/">>,
                       Home \o <<"/", "a", "#", "f">>,
                       Home \o <<"/", "b", ".png">>,
                       Home \o <<"/", "c", ".png", "/">>,
                       Other \o <<"/", "a">>,
                       <<"mailto:", "a">>,
                       <<"#", "f">>,
                       <<BadEscape>>,
                       <<>>,
                       <<"/", "/", "x.com", "/", "d", "/", "/">>,
                       <<"a">> >>
               ELSE IF url = Home \o <<"/", "a">>
               THEN << <<"..", "/">>, <<"e", ".html">>, <<"d", "/">>,
                       <<"/", "a", "/">> >>
               ELSE << <<"/">> >>

\* baseURL arguments.
Seeds ==
    { Root,
      Home,
      Home \o <<"/", "a", "/">>,
      Home \o <<"/", "a", ".pdf">>,
      Home \o <<"/", "0", "#", "f">>,
      Home \o <<"/", BadEscape>> }

\* Candidate <loc> values of a sitemap.
LocPool ==
    { Home \o <<"/", "a", "/">>,
      Home \o <<"/", "b", "#", "f">>,
      Other \o <<"/", "a">>,
      Home \o <<"/", "b", ".png">>,
      Home \o <<"/", "c", ".png", "/">> }

SeqsUpTo(S, n) == UNION {[1..k -> S] : k \in 0..n}

\* http.StatusOK
StatusOK == 200

\* resp.StatusCode of the sitemap responses: 200, two other statuses of the
\* success class and one outside it.
SitemapStatuses == {StatusOK, 201, 299, 404}

\* fmt.Errorf("sitemap returned %d", resp.StatusCode)
StatusError(code) ==
    CASE code = 201 -> "sitemap returned 201"
      [] code = 299 -> "sitemap returned 299"
      [] code = 404 -> "sitemap returned 404"
      [] OTHER -> "sitemap returned 200"

\* What the sitemap request can come back with: a transport error (no
\* response, status 0), or a response with a status and a body that is not
\* XML ("xml") or parses to a list of <loc> values ("ok").
SitemapResponses ==
    [kind : {"transport"}, status : {0}, locs : {<<>>}]
    \cup [kind : {"xml"}, status : SitemapStatuses, locs : {<<>>}]
    \cup [kind : {"ok"}, status : {StatusOK},
          locs : SeqsUpTo(LocPool, MaxSitemapLen)]
    \cup [kind : {"ok"}, status : SitemapStatuses \ {StatusOK},
          locs : {<<Home \o <<"/", "a", "/">>>>}]

NoResp == [kind |-> "none", status |-> 0, locs |-> <<>>]

----------------------------------------------------------------------------
(* discover.go: the discovery orchestrator                                 *)

\* The sitemap loop appending u.Loc itself instead of NormalizeURL(u.Loc).
RECURSIVE SitemapURLs_NoNormalize(_, _)
SitemapURLs_NoNormalize(locs, dom) ==
    IF locs = <<>> THEN <<>>
    ELSE IF IsSameDomain(Head(locs), dom) /\ ~IsStaticAsset(Head(locs))
    THEN <<Head(locs)>> \o SitemapURLs_NoNormalize(Tail(locs), dom)
    ELSE SitemapURLs_NoNormalize(Tail(locs), dom)

\* The loop of discoverFromSitemap: keep the same-domain, non-asset <loc>
\* values, normalized, in document order.
RECURSIVE SitemapURLs(_, _)
SitemapURLs(locs, dom) ==
    IF locs = <<>> THEN <<>>
    ELSE LET loc  == Head(locs)
             rest == SitemapURLs(Tail(locs), dom)
         IN  IF IsSameDomain(loc, dom) /\ ~IsStaticAsset(loc)
             THEN <<NormalizeURL(loc)>> \o rest
             ELSE rest

\* discoverFromSitemap taking every status of the success class.
discoverFromSitemap_Any2xx(r, dom) ==
    IF r.kind = "transport" THEN [urls |-> <<>>, err |-> "transport"]
    ELSE IF r.status \notin 200..299
    THEN [urls |-> <<>>, err |-> StatusError(r.status)]
    ELSE IF r.kind = "xml" THEN [urls |-> <<>>, err |-> "xml"]
    ELSE [urls |-> SitemapURLs(r.locs, dom), err |-> "nil"]

\* discoverFromSitemap(ctx, sitemapURL, domain) on response r: (urls, err).
\* client.Do failed; or the status is not http.StatusOK; or the body does
\* not unmarshal; or the filtered, normalized <loc> values are returned.
discoverFromSitemap(r, dom) ==
    IF r.kind = "transport" THEN [urls |-> <<>>, err |-> "transport"]
    ELSE IF r.status # StatusOK
    THEN [urls |-> <<>>, err |-> StatusError(r.status)]
    ELSE IF r.kind = "xml" THEN [urls |-> <<>>, err |-> "xml"]
    ELSE [urls |-> SitemapURLs(r.locs, dom), err |-> "nil"]

\* The link loop body without the IsSameDomain test.
AddLink_NoDomainCheck(q, link, dom) ==
    IF ~IsStaticAsset(link)
    THEN QAdd(q, NormalizeURL(link))
    ELSE q

\* One pass of the link loop of discoverFromLinks: Add the link if it is
\* same-domain and no static asset, normalized.
AddLink(q, link, dom) ==
    IF IsSameDomain(link, dom) /\ ~IsStaticAsset(link)
    THEN Let(LAMBDA url : QAdd(q, url), NormalizeURL(link))
    ELSE q

\* The link loop of discoverFromLinks over links[from..to], in order, walked
\* by halves, first half first.
RECURSIVE AddLinksRange(_, _, _, _, _)
AddLinksRange(q, links, from, to, dom) ==
    IF from > to THEN q
    ELSE IF from = to THEN AddLink(q, links[from], dom)
    ELSE Let(LAMBDA half :
               AddLinksRange(half, links, ((from + to) \div 2) + 1, to, dom),
             AddLinksRange(q, links, from, (from + to) \div 2, dom))

\* The link loop of discoverFromLinks: for _, link := range links.
AddLinks(q, links, dom) ==
    Let(LAMBDA q0 :
          Let(LAMBDA l0 : AddLinksRange(q0, l0, 1, Len(l0), dom), links),
        q)

\* The loop condition without the HasNext test.
LoopCond_NoHasNext(q) == QVisited(q) < maxPages

\* The loop condition with <= for <.
LoopCond_OffByOne(q) == QHasNext(q) /\ QVisited(q) <= maxPages

\* The loop condition of discoverFromLinks.
LoopCond(q) == QHasNext(q) /\ QVisited(q) < maxPages

\* The queue discoverFromLinks starts from.
SeedQueue(startURL) == QAdd(NewQueue, NormalizeURL(startURL))

\* What one fetch can come back with.
FetchOutcomes == {"ok", "fetch_error", "extract_error"}

\* The test without len(urls) > 0: an empty sitemap result is returned.
UseSitemap_EmptyAccepted(sm) == sm.err = "nil"

\* DiscoverAll's test of the sitemap result: no error and at least one URL.
UseSitemap(sm) == sm.err = "nil" /\ Len(sm.urls) > 0

\* DiscoverAll dropping the error of url.Parse(baseURL).
BaseError_Dropped(u) == "nil"

\* DiscoverAll's test of url.Parse(baseURL): the error it returns, or "nil".
BaseError(u) == IF Parse(u).ok THEN "nil" ELSE "parsing base URL"

\* The harness variables of the URL rules, the extractor and concurrent calls.
probes == <<verdict, anchors, emitted, heap, runs, adders, overlap>>

\* What a probe variable holds when its harness is not running.
NoVerdict == [fn |-> "none", out |-> FALSE]

NoEmit == [done |-> FALSE, links |-> <<>>]

Idle ==
    /\ verdict = NoVerdict
    /\ anchors = <<>>
    /\ emitted = NoEmit
    /\ heap = <<>>
    /\ runs = <<>>
    /\ adders = <<>>
    /\ overlap = {}

harness == <<added, ustr, uprev, uapplied, returned, probes>>

Init ==
    /\ pc = "start"
    /\ baseURL \in Seeds
    /\ site \in Sites
    /\ domain = <<>>
    /\ resp = NoResp
    /\ queue = NewQueue
    /\ smErr = "none"
    /\ result = <<>>
    /\ err = "nil"
    /\ fetched = <<>>
    /\ failures = 0
    /\ via = "none"
    /\ added = <<>>
    /\ ustr = <<>>
    /\ uprev = <<>>
    /\ uapplied = 0
    /\ returned = <<>>
    /\ Idle

\* DiscoverAll, until the sitemap request is sent: parse baseURL; an
\* unparsable baseURL is returned as an error.
ParseBase ==
    /\ pc = "start"
    /\ IF BaseError(baseURL) # "nil"
       THEN /\ pc' = "done"
            /\ err' = BaseError(baseURL)
            /\ UNCHANGED domain
       ELSE /\ pc' = "sitemap_request"
            /\ domain' = Parse(baseURL).host
            /\ UNCHANGED err
    /\ UNCHANGED <<baseURL, site, resp, queue, smErr, result, fetched,
                   failures, via, harness>>

\* client.Do(req) and the reading of the body: the sitemap request comes back.
SitemapRespond ==
    /\ pc = "sitemap_request"
    /\ resp' \in SitemapResponses
    /\ pc' = "sitemap_response"
    /\ UNCHANGED <<baseURL, site, domain, queue, smErr, result, err, fetched,
                   failures, via, harness>>

\* The rest of discoverFromSitemap and DiscoverAll's decision: return the
\* sitemap's URLs if there was no error and there is at least one, else
\* enter discoverFromLinks, which seeds a new Queue with the start URL.
\* The response is closed when discoverFromSitemap returns.
SitemapDone ==
    /\ pc = "sitemap_response"
    /\ smErr' = discoverFromSitemap(resp, domain).err
    /\ IF UseSitemap(discoverFromSitemap(resp, domain))
       THEN /\ result' = discoverFromSitemap(resp, domain).urls
            /\ via' = "sitemap"
            /\ pc' = "done"
            /\ UNCHANGED queue
       ELSE /\ queue' = SeedQueue(baseURL)
            /\ via' = "bfs"
            /\ pc' = "bfs"
            /\ UNCHANGED result
    /\ resp' = NoResp
    /\ UNCHANGED <<baseURL, site, domain, err, fetched, failures, harness>>

\* The links discoverFromLinks gets for currentURL from a successful fetch.
PageLinks(s, currentURL) == extractLinks(PageHrefs(s, currentURL), currentURL)

\* One iteration of the loop of discoverFromLinks: Next, Fetch, extractLinks
\* and the Add of every link that passes the filters.  A failed fetch or
\* extraction skips the page.  Next on a Queue without a next URL reads
\* q.items[q.idx] out of range: the goroutine panics.
BfsStep ==
    /\ pc = "bfs"
    /\ LoopCond(queue)
    /\ IF ~QHasNext(queue)
       THEN /\ pc' = "panic"
            /\ UNCHANGED <<queue, fetched, failures>>
       ELSE /\ \E currentURL \in {QNextURL(queue)}, outcome \in FetchOutcomes :
                 /\ fetched' = Append(fetched, currentURL)
                 /\ IF outcome = "ok"
                    THEN /\ queue' = AddLinks(QAdvance(queue),
                                              PageLinks(site, currentURL),
                                              domain)
                         /\ UNCHANGED failures
                    ELSE /\ failures < MaxFailures
                         /\ failures' = failures + 1
                         /\ queue' = QAdvance(queue)
            /\ UNCHANGED pc
    /\ UNCHANGED <<baseURL, site, domain, resp, smErr, result, err, via,
                   harness>>

\* The loop condition is false: discoverFromLinks returns queue.All(), nil.
BfsReturn ==
    /\ pc = "bfs"
    /\ ~LoopCond(queue)
    /\ result' = QAll(queue)
    /\ pc' = "done"
    /\ UNCHANGED <<baseURL, site, domain, resp, queue, smErr, err, fetched,
                   failures, via, harness>>

Next ==
    \/ ParseBase
    \/ SitemapRespond
    \/ SitemapDone
    \/ BfsStep
    \/ BfsReturn

Spec == Init /\ [][Next]_vars

\* The call is sequential code: whatever step is enabled is taken.
FairSpec == Init /\ [][Next]_vars /\ WF_vars(Next)

----------------------------------------------------------------------------
(* A harness that drives one Queue through any sequence of Add and Next    *)

\* Calls of Add made by the harness.
MaxAdds == 4

QueueURLs == {Home \o <<"/", "a">>, Home \o <<"/", "b">>, Home \o <<"/", "c">>}

discovery == <<baseURL, site, domain, resp, smErr, result, err, fetched,
               failures, via>>

QueueInit ==
    /\ pc = "queue"
    /\ baseURL = <<>>
    /\ site = "none"
    /\ domain = <<>>
    /\ resp = NoResp
    /\ queue = NewQueue
    /\ smErr = "none"
    /\ result = <<>>
    /\ err = "nil"
    /\ fetched = <<>>
    /\ failures = 0
    /\ via = "none"
    /\ added = <<>>
    /\ ustr = <<>>
    /\ uprev = <<>>
    /\ uapplied = 0
    /\ returned = <<>>
    /\ Idle

\* q.Add(url)
QueueAdd ==
    /\ pc = "queue"
    /\ Len(added) < MaxAdds
    /\ \E url \in QueueURLs :
         /\ queue' = QAdd(queue, url)
         /\ added' = Append(added, url)
    /\ UNCHANGED <<pc, discovery, ustr, uprev, uapplied, returned, probes>>

\* q.Next(), called as its contract asks: only when HasNext().
QueueNext ==
    /\ pc = "queue"
    /\ QHasNext(queue)
    /\ returned' = Append(returned, QNextURL(queue))
    /\ queue' = QAdvance(queue)
    /\ UNCHANGED <<pc, discovery, added, ustr, uprev, uapplied, probes>>

QueueStep == QueueAdd \/ QueueNext

QueueSpec == QueueInit /\ [][QueueStep]_vars

----------------------------------------------------------------------------
(* A harness that applies NormalizeURL repeatedly to one URL string        *)

\* Longest path (in tokens) of a generated URL string.
MaxPathLen == 4

\* Applications of NormalizeURL to one string.
MaxApply == 2

PathToks == {"/", "a", ".png", BadEscape}

\* NormalizeURL is called on baseURL, on sitemap <loc> values and on resolved
\* links that passed IsSameDomain: strings with a scheme and a host.
UrlInputs ==
    {prefix \o p \o f :
        prefix \in {Home, Other},
        p \in SeqsUpTo(PathToks, MaxPathLen),
        f \in {<<>>, <<"#", "f">>}}

UrlInit ==
    /\ pc = "url"
    /\ baseURL = <<>>
    /\ site = "none"
    /\ domain = <<>>
    /\ resp = NoResp
    /\ queue = NewQueue
    /\ smErr = "none"
    /\ result = <<>>
    /\ err = "nil"
    /\ fetched = <<>>
    /\ failures = 0
    /\ via = "none"
    /\ added = <<>>
    /\ ustr \in UrlInputs
    /\ uprev = <<>>
    /\ uapplied = 0
    /\ returned = <<>>
    /\ Idle

\* ustr = NormalizeURL(ustr)
UrlNormalize ==
    /\ pc = "url"
    /\ uapplied < MaxApply
    /\ uprev' = ustr
    /\ ustr' = NormalizeURL(ustr)
    /\ uapplied' = uapplied + 1
    /\ UNCHANGED <<pc, discovery, queue, added, returned, probes>>

UrlSpec == UrlInit /\ [][UrlNormalize]_vars

----------------------------------------------------------------------------
(* A harness that calls IsSameDomain or IsStaticAsset on one URL string    *)

\* A host, a subdomain of it, the host with a port, another host.
FilterHosts ==
    { <<"x.com">>, <<"sub.", "x.com">>, <<"x.com", ":8080">>, <<"y.com">> }

FilterPaths ==
    { <<>>, <<"/">>, <<"/", "p">>,
      <<"/", "a", ".JPG">>, <<"/", "a", ".html">>, <<"/", "a", ".png">>,
      <<"/", "a", ".png", "/">>, <<"/", "a", ".png", "/", "b">>,
      <<"/", "a", ".html", ".pdf">>, <<"/", "a", ".pdf", ".html">>,
      <<"/", BadEscape>> }

\* URL strings with and without scheme and authority, with and without a
\* query and a fragment; without an authority the string may be rootless
\* ("not a url").
FilterInputs ==
    {sch \o auth \o p \o q \o f :
        sch \in {<<>>, <<SchemeTok>>},
        auth \in {<<>>} \cup {<<"/", "/">> \o h : h \in FilterHosts},
        p \in FilterPaths \cup {<<"a", ".png">>},
        q \in {<<>>, <<"?", "q", ".png">>},
        f \in {<<>>, <<"#", "f", ".png">>}}

FilterInit ==
    /\ pc = "filter"
    /\ baseURL = <<>>
    /\ site = "none"
    /\ domain \in {<<"x.com">>, <<"y.com">>}
    /\ resp = NoResp
    /\ queue = NewQueue
    /\ smErr = "none"
    /\ result = <<>>
    /\ err = "nil"
    /\ fetched = <<>>
    /\ failures = 0
    /\ via = "none"
    /\ added = <<>>
    /\ ustr \in FilterInputs
    /\ uprev = <<>>
    /\ uapplied = 0
    /\ returned = <<>>
    /\ Idle

\* IsSameDomain(ustr, domain)
FilterSameDomain ==
    /\ pc = "filter"
    /\ verdict = NoVerdict
    /\ verdict' = [fn |-> "IsSameDomain", out |-> IsSameDomain(ustr, domain)]
    /\ UNCHANGED <<pc, discovery, queue, added, ustr, uprev, uapplied,
                   returned, anchors, emitted, heap, runs, adders, overlap>>

\* IsStaticAsset(ustr)
FilterStaticAsset ==
    /\ pc = "filter"
    /\ verdict = NoVerdict
    /\ verdict' = [fn |-> "IsStaticAsset", out |-> IsStaticAsset(ustr)]
    /\ UNCHANGED <<pc, discovery, queue, added, ustr, uprev, uapplied,
                   returned, anchors, emitted, heap, runs, adders, overlap>>

FilterStep == FilterSameDomain \/ FilterStaticAsset

FilterSpec == FilterInit /\ [][FilterStep]_vars

----------------------------------------------------------------------------
(* A harness that calls extractLinks on one document                       *)

\* Most a[href] elements of a generated document.
MaxAnchors == 3

\* The pages the documents are served at.
DocPages ==
    { Home \o <<"/", "docs", "/">>,
      Home \o <<"/", "docs", "/", "guide">>,
      Root }

\* href values: relative, rooted and absolute references, the skipped
\* prefixes, a malformed href and the empty href.
HrefPool ==
    { <<"..", "/", "intro">>,
      <<"a">>,
      <<"/", "b">>,
      Other \o <<"/", "c", "#", "f">>,
      <<"mailto:", "a">>,
      <<"javascript:", "a">>,
      <<"tel:", "1">>,
      <<"#", "section">>,
      <<BadEscape>>,
      <<>> }

ExtractInit ==
    /\ pc = "extract"
    /\ baseURL = <<>>
    /\ site = "none"
    /\ domain = <<>>
    /\ resp = NoResp
    /\ queue = NewQueue
    /\ smErr = "none"
    /\ result = <<>>
    /\ err = "nil"
    /\ fetched = <<>>
    /\ failures = 0
    /\ via = "none"
    /\ added = <<>>
    /\ ustr \in DocPages
    /\ uprev = <<>>
    /\ uapplied = 0
    /\ returned = <<>>
    /\ verdict = NoVerdict
    /\ anchors \in SeqsUpTo(HrefPool, MaxAnchors)
    /\ emitted = NoEmit
    /\ heap = <<>>
    /\ runs = <<>>
    /\ adders = <<>>
    /\ overlap = {}

\* links, err := extractLinks(html, ustr)
Extract ==
    /\ pc = "extract"
    /\ ~emitted.done
    /\ emitted' = [done |-> TRUE, links |-> extractLinks(anchors, ustr)]
    /\ UNCHANGED <<pc, discovery, queue, added, ustr, uprev, uapplied,
                   returned, verdict, anchors, heap, runs, adders, overlap>>

ExtractSpec == ExtractInit /\ [][Extract]_vars

----------------------------------------------------------------------------
(* Two DiscoverAll calls running concurrently, each in its BFS fallback    *)

ConcProcs == {1, 2}

ConcSites == {"mixed", "dense", "fan"}

ConcSeeds == {Root, Home \o <<"/", "a", "/">>}

\* One Queue for every call: the reference handed out is the one in use.
AllocQueue_Shared(h) == 1

\* NewQueue() returns a reference to a newly allocated Queue.
AllocQueue(h) == Len(h) + 1

\* The heap h with the Queue q at reference ref.
Store(h, ref, q) ==
    [i \in 1..(IF ref > Len(h) THEN ref ELSE Len(h)) |->
        IF i = ref THEN q ELSE h[i]]

ConcInit ==
    /\ pc = "conc"
    /\ baseURL = <<>>
    /\ site = "none"
    /\ domain = <<>>
    /\ resp = NoResp
    /\ queue = NewQueue
    /\ smErr = "none"
    /\ result = <<>>
    /\ err = "nil"
    /\ fetched = <<>>
    /\ failures = 0
    /\ via = "none"
    /\ added = <<>>
    /\ ustr = <<>>
    /\ uprev = <<>>
    /\ uapplied = 0
    /\ returned = <<>>
    /\ verdict = NoVerdict
    /\ anchors = <<>>
    /\ emitted = NoEmit
    /\ heap = <<>>
    /\ runs \in [ConcProcs ->
                    [pc : {"start"}, base : ConcSeeds, site : ConcSites,
                     dom : {<<"x.com">>}, q : {0}, result : {<<>>}]]
    /\ adders = <<>>
    /\ overlap = {}

idle == <<pc, discovery, queue, added, ustr, uprev, uapplied, returned,
          verdict, anchors, emitted, adders, overlap>>

\* discoverFromLinks of call p: queue := NewQueue(); queue.Add(NormalizeURL(startURL))
ConcSeed(p) ==
    /\ pc = "conc"
    /\ runs[p].pc = "start"
    /\ \E ref \in {AllocQueue(heap)} :
         /\ heap' = Store(heap, ref, SeedQueue(runs[p].base))
         /\ runs' = [runs EXCEPT ![p].pc = "bfs", ![p].q = ref]
    /\ UNCHANGED idle

\* One iteration of the loop of call p, on the Queue it holds; every fetch
\* succeeds.
ConcStep(p) ==
    /\ pc = "conc"
    /\ runs[p].pc = "bfs"
    /\ LoopCond(heap[runs[p].q])
    /\ \E currentURL \in {QNextURL(heap[runs[p].q])} :
         heap' = Store(heap, runs[p].q,
                       AddLinks(QAdvance(heap[runs[p].q]),
                                PageLinks(runs[p].site, currentURL),
                                runs[p].dom))
    /\ UNCHANGED <<runs, idle>>

\* return queue.All(), nil in call p
ConcReturn(p) ==
    /\ pc = "conc"
    /\ runs[p].pc = "bfs"
    /\ ~LoopCond(heap[runs[p].q])
    /\ runs' = [runs EXCEPT ![p].pc = "done",
                            ![p].result = QAll(heap[runs[p].q])]
    /\ UNCHANGED <<heap, idle>>

ConcNext == \E p \in ConcProcs : ConcSeed(p) \/ ConcStep(p) \/ ConcReturn(p)

ConcSpec == ConcInit /\ [][ConcNext]_vars

----------------------------------------------------------------------------
(* A harness in which two workers call Add on one shared Queue, as a BFS   *)
(* loop with concurrent fetch workers would.  Add takes no lock, so each   *)
(* of its memory accesses is a step of its own: the lookup in visited, the *)
(* write to visited, and the append, which reads q.items and then stores   *)
(* the extended slice.  The two map accesses of different workers are a    *)
(* data race, which the Go runtime may end with a fatal error.             *)

RaceProcs == {1, 2}

\* Calls of Add each worker makes.
MaxRaceAdds == 2

RaceURLs == {Home \o <<"/", "a">>, Home \o <<"/", "b">>}

\* Every call reaching the insert, whatever visited holds.
AddPasses_Always(q, url) == TRUE

\* if q.visited[url] { return }: the call goes on to the insert.
AddPasses(q, url) == url \notin q.visited

RaceInit ==
    /\ pc = "race"
    /\ baseURL = <<>>
    /\ site = "none"
    /\ domain = <<>>
    /\ resp = NoResp
    /\ queue = NewQueue
    /\ smErr = "none"
    /\ result = <<>>
    /\ err = "nil"
    /\ fetched = <<>>
    /\ failures = 0
    /\ via = "none"
    /\ added = <<>>
    /\ ustr = <<>>
    /\ uprev = <<>>
    /\ uapplied = 0
    /\ returned = <<>>
    /\ verdict = NoVerdict
    /\ anchors = <<>>
    /\ emitted = NoEmit
    /\ heap = <<>>
    /\ runs = <<>>
    /\ adders = [p \in RaceProcs |->
                   [pc |-> "idle", url |-> <<>>, seen |-> <<>>, calls |-> 0]]
    /\ overlap = {}

racing == <<pc, discovery, ustr, uprev, uapplied, returned, verdict, anchors,
            emitted, heap, runs>>

\* Another worker is inside Add for the same URL, past its lookup and
\* before the end of its append.
Interleaved(p) ==
    \E r \in RaceProcs \ {p} :
        /\ adders[r].pc \in {"mark", "load", "store"}
        /\ adders[r].url = adders[p].url

\* overlap after a step of worker p.
Overlapped(p) ==
    IF Interleaved(p) THEN overlap \cup {adders[p].url} ELSE overlap

\* Worker p calls q.Add(url).
AddCall(p) ==
    /\ pc = "race"
    /\ adders[p].pc = "idle"
    /\ adders[p].calls < MaxRaceAdds
    /\ \E url \in RaceURLs :
         /\ adders' = [adders EXCEPT ![p].pc = "test", ![p].url = url]
         /\ added' = Append(added, url)
    /\ UNCHANGED <<queue, overlap, racing>>

\* if q.visited[url] { return }
AddTest(p) ==
    /\ pc = "race"
    /\ adders[p].pc = "test"
    /\ IF AddPasses(queue, adders[p].url)
       THEN adders' = [adders EXCEPT ![p].pc = "mark"]
       ELSE adders' = [adders EXCEPT ![p].pc = "idle",
                                     ![p].calls = @ + 1]
    /\ overlap' = Overlapped(p)
    /\ UNCHANGED <<queue, added, racing>>

\* q.visited[url] = true
AddMark(p) ==
    /\ pc = "race"
    /\ adders[p].pc = "mark"
    /\ queue' = [queue EXCEPT !.visited = @ \cup {adders[p].url}]
    /\ adders' = [adders EXCEPT ![p].pc = "load"]
    /\ overlap' = Overlapped(p)
    /\ UNCHANGED <<added, racing>>

\* append(q.items, url): the read of q.items.
AddLoad(p) ==
    /\ pc = "race"
    /\ adders[p].pc = "load"
    /\ adders' = [adders EXCEPT ![p].pc = "store", ![p].seen = queue.items]
    /\ overlap' = Overlapped(p)
    /\ UNCHANGED <<queue, added, racing>>

\* q.items = append(...): the store of the slice read, extended by url.
AddStore(p) ==
    /\ pc = "race"
    /\ adders[p].pc = "store"
    /\ queue' = [queue EXCEPT !.items = Append(adders[p].seen, adders[p].url)]
    /\ adders' = [adders EXCEPT ![p].pc = "idle", ![p].seen = <<>>,
                                ![p].calls = @ + 1]
    /\ overlap' = Overlapped(p)
    /\ UNCHANGED <<added, racing>>

\* Two workers are at the map at once, one of them writing: the runtime
\* may throw "fatal error: concurrent map writes" (or "concurrent map read
\* and map write") and the process ends.
AddFatal ==
    /\ pc = "race"
    /\ \E p \in RaceProcs, r \in RaceProcs :
         /\ p # r
         /\ adders[p].pc = "mark"
         /\ adders[r].pc \in {"test", "mark"}
    /\ pc' = "fatal"
    /\ UNCHANGED <<discovery, queue, added, ustr, uprev, uapplied, returned,
                   probes>>

RaceNext ==
    \/ \E p \in RaceProcs :
         AddCall(p) \/ AddTest(p) \/ AddMark(p) \/ AddLoad(p) \/ AddStore(p)
    \/ AddFatal

RaceSpec == RaceInit /\ [][RaceNext]_vars

----------------------------------------------------------------------------
(* Properties                                                              *)

\* The elements of s that satisfy Keep, in order, each mapped by NormalizeURL.
KeptNormalized(s, dom) ==
    LET kept == SelectSeq(s, LAMBDA l : IsSameDomain(l, dom) /\ ~IsStaticAsset(l))
    IN  [i \in 1..Len(kept) |-> NormalizeURL(kept[i])]

NoDuplicates(s) == \A i, j \in 1..Len(s) : s[i] = s[j] => i = j

\* The distinct elements of s in order of first occurrence.
FirstOccurrences(s) ==
    LET firsts == {i \in 1..Len(s) : \A j \in 1..(i - 1) : s[j] # s[i]}
        rank(i) == Cardinality({j \in firsts : j <= i})
    IN  [k \in 1..Cardinality(firsts) |->
            s[CHOOSE i \in firsts : rank(i) = k]]

C2_SitemapFallback ==
    /\ [][(/\ pc = "sitemap_response"
           /\ \/ resp.kind # "ok"
              \/ resp.status # StatusOK
              \/ KeptNormalized(resp.locs, domain) = <<>>)
          => (/\ pc' = "bfs"
              /\ via' = "bfs"
              /\ queue'.items = <<NormalizeURL(baseURL)>>
              /\ queue'.idx = 0
              /\ err' = "nil")]_vars
    /\ [](via = "bfs" => err = "nil")
    /\ [](smErr \notin {"none", "nil"} => via = "bfs")

C2_Witness ==
    /\ pc = "done"
    /\ via = "bfs"
    /\ smErr = "nil"
    /\ Len(fetched) > 1
    /\ err = "nil"

\* C3: DiscoverAll returns an error if and only if the starting URL cannot
\* be parsed; whatever the sitemap failure and however many page fetches or
\* link extractions fail, it returns a nil error and a URL list.
C3_ErrorIffSeedUnparsable ==
    pc = "done" =>
        /\ (err # "nil") <=> ~Parse(baseURL).ok
        /\ err # "nil" => result = <<>> /\ via = "none"
        /\ err = "nil" => Len(result) > 0

C3_Witness ==
    /\ pc = "done"
    /\ err = "nil"
    /\ smErr = "transport"
    /\ failures >= 2
    /\ Len(result) > 1

\* C4: during and after the BFS fallback, VisitedCount, and so the length of
\* the returned list, never exceeds maxPages.
C4_VisitedWithinCap ==
    via = "bfs" => QVisited(queue) <= maxPages /\ Len(result) <= maxPages

\* C5: the BFS loop terminates for every site and every pattern of fetch
\* failures: the call reaches its return, and the loop makes at most
\* maxPages iterations.
C5_Terminates ==
    /\ <>(pc = "done")
    /\ [](Len(fetched) <= maxPages)

C5_Witness ==
    /\ pc = "done"
    /\ via = "bfs"
    /\ site = "cycle"
    /\ failures = 0
    /\ Len(fetched) > 50

\* C6: on the cycle site (more pages than maxPages, one link per page), with
\* every fetch succeeding, a BFS started at a page of the cycle returns
\* exactly maxPages URLs.
C6_CycleReturnsCap ==
    (/\ pc = "done"
     /\ via = "bfs"
     /\ site = "cycle"
     /\ failures = 0
     /\ PageNum(NormalizeURL(baseURL)) >= 0)
    => /\ Len(result) = maxPages
       /\ QVisited(queue) = maxPages
       /\ NoDuplicates(result)

C6_Witness ==
    /\ pc = "done"
    /\ via = "bfs"
    /\ site = "cycle"
    /\ failures = 0
    /\ baseURL = Home \o <<"/", "0", "#", "f">>
    /\ NumPages > maxPages
    /\ Len(result) = maxPages

\* C7: after any sequence of Add and Next calls, All() holds each URL at
\* most once, the visited set is the set of URLs in All(), VisitedCount is
\* len(All()); Add of a visited URL changes nothing, and adding one URL
\* twice raises VisitedCount by exactly 1 (by 0 if it was visited before)
\* and leaves it exactly once in All().
C7_QueueDedup ==
    /\ NoDuplicates(QAll(queue))
    /\ queue.visited = Range(QAll(queue))
    /\ QVisited(queue) = Len(QAll(queue))
    /\ \A u \in QueueURLs :
         /\ u \in queue.visited => QAdd(queue, u) = queue
         /\ QVisited(QAdd(QAdd(queue, u), u))
              = QVisited(queue) + (IF u \in queue.visited THEN 0 ELSE 1)
         /\ Cardinality({i \in 1..Len(QAll(QAdd(QAdd(queue, u), u))) :
                           QAll(QAdd(QAdd(queue, u), u))[i] = u}) = 1

C7_Witness ==
    /\ pc = "queue"
    /\ Len(added) = 3
    /\ added[2] = added[3]
    /\ QVisited(queue) = 2
    /\ queue.idx = 1

\* C8: All() is the sequence of distinct URLs in order of their first Add,
\* whatever Next calls are interleaved: Next never reorders or removes.
C8_FifoOrder ==
    pc = "queue" => QAll(queue) = FirstOccurrences(added)

C8_Witness ==
    /\ pc = "queue"
    /\ added = <<Home \o <<"/", "a">>, Home \o <<"/", "b">>,
                 Home \o <<"/", "a">>, Home \o <<"/", "c">>>>
    /\ QAll(queue) = <<Home \o <<"/", "a">>, Home \o <<"/", "b">>,
                       Home \o <<"/", "c">>>>
    /\ queue.idx = 2

\* C9: NormalizeURL is idempotent: applying it to its own result changes
\* nothing.
C9_NormalizeIdempotent ==
    uapplied >= 2 => ustr = uprev

\* C10: every URL in the list DiscoverAll returns is a non-asset URL.
C10_NoAssetReturned ==
    pc = "done" => \A i \in 1..Len(result) : ~IsStaticAsset(result[i])

\* C11: every URL DiscoverAll returns is in-domain: it parses and its host
\* is exactly the host of the starting URL, on the sitemap path and on the
\* BFS path.
C11_InDomain ==
    (pc = "done" /\ err = "nil") =>
        \A i \in 1..Len(result) :
            /\ Parse(result[i]).ok
            /\ Parse(result[i]).host = Parse(baseURL).host

C11_Witness ==
    /\ pc = "done"
    /\ via = "bfs"
    /\ site = "mixed"
    /\ baseURL = Root
    /\ failures = 0
    /\ Len(result) > 3

\* A URL string in canonical form: no fragment, and no trailing slash
\* unless the path is the root.
Canonical(u) ==
    /\ Parse(u).ok
    /\ "#" \notin Range(u)
    /\ Parse(u).path = <<"/">> \/ Parse(u).path = <<>> \/ Last(Parse(u).path) # "/"

\* C12: every URL stored in the Queue and every URL DiscoverAll returns is
\* in canonical form.
C12_Canonical ==
    /\ \A i \in 1..Len(QAll(queue)) : Canonical(QAll(queue)[i])
    /\ pc = "done" => \A i \in 1..Len(result) : Canonical(result[i])

\* C13: in one BFS run no URL is passed to Fetch twice; a failed page is
\* skipped and the loop goes on, the URL stays in the visited set and in the
\* list and VisitedCount keeps counting it; every URL fetched, failed or
\* not, is in the returned list.
C13_FetchAtMostOnce ==
    /\ [](NoDuplicates(fetched))
    /\ [][failures' = failures + 1
          => (/\ pc' = "bfs"
              /\ err' = "nil"
              /\ Last(fetched') = QNextURL(queue)
              /\ Last(fetched') \in queue'.visited
              /\ QAll(queue') = QAll(queue)
              /\ QVisited(queue') = QVisited(queue))]_vars
    /\ [](Range(fetched) \subseteq queue.visited)
    /\ []((pc = "done" /\ via = "bfs") => Range(fetched) \subseteq Range(result))

\* The fetch of page 1 of the dense site failed (its links 25.. are not
\* where they would be), page 5, which links to page 1, was fetched later,
\* and page 1 is in the list.
C13_Witness ==
    /\ pc = "done"
    /\ via = "bfs"
    /\ site = "dense"
    /\ baseURL = Root
    /\ failures = 1
    /\ Len(result) > 2 * DenseFan
    /\ result[3] = PageURL(1)
    /\ result[DenseFan + 3] = PageURL(2 * DenseFan + 1)
    /\ PageURL(1) \in Range(fetched)
    /\ PageURL(5) \in Range(fetched)

\* C14: the list a successful DiscoverAll call returns includes the
\* normalized baseURL, from the sitemap as from the BFS fallback.
C14_BaseIncluded ==
    (pc = "done" /\ err = "nil") => NormalizeURL(baseURL) \in Range(result)

\* C20: in every state of a Queue the cursor is between 0 and len(All());
\* HasNext is true iff the cursor is before the end; Next returns the
\* element at the cursor and advances the cursor by exactly one, so the
\* URLs returned so far are the first cursor elements of All(); the cursor
\* never decreases and Add does not move it.
C20_Cursor ==
    /\ [](0 <= queue.idx /\ queue.idx <= Len(QAll(queue)))
    /\ [](QHasNext(queue) <=> queue.idx < Len(QAll(queue)))
    /\ [](returned = SubSeq(QAll(queue), 1, queue.idx))
    /\ [][queue'.idx >= queue.idx]_vars
    /\ [][returned' # returned
          => (/\ queue'.idx = queue.idx + 1
              /\ returned' = Append(returned, QAll(queue)[queue.idx + 1])
              /\ QAll(queue') = QAll(queue))]_vars
    /\ [][added' # added => queue'.idx = queue.idx]_vars

C20_Witness ==
    /\ pc = "queue"
    /\ queue.idx = 2
    /\ Len(added) = 4
    /\ Len(QAll(queue)) = 3
    /\ returned = <<QAll(queue)[1], QAll(queue)[2]>>
    /\ QHasNext(queue)

\* The URL string read off lexically: without the fragment (from the first
\* '#') and the query (from the first '?'), and without the scheme.
Hier(raw) ==
    LET nofrag  == IF IndexOf(raw, "#") = 0 THEN raw
                   ELSE SubSeq(raw, 1, IndexOf(raw, "#") - 1)
        noquery == IF IndexOf(nofrag, "?") = 0 THEN nofrag
                   ELSE SubSeq(nofrag, 1, IndexOf(nofrag, "?") - 1)
    IN  IF HasPrefix(noquery, <<SchemeTok>>) THEN Tail(noquery) ELSE noquery

\* The host written in raw: what stands between a leading "//" and the next
\* '/'; nothing if raw has no "//" there.
WrittenHost(raw) ==
    IF ~HasPrefix(Hier(raw), <<"/", "/">>) THEN <<>>
    ELSE LET rest == SubSeq(Hier(raw), 3, Len(Hier(raw)))
         IN  IF IndexOf(rest, "/") = 0 THEN rest
             ELSE SubSeq(rest, 1, IndexOf(rest, "/") - 1)

\* The path written in raw: what follows the host; a rootless string after
\* a scheme ("https:a.png") has no path.
WrittenPath(raw) ==
    IF HasPrefix(Hier(raw), <<"/", "/">>)
    THEN SubSeq(Hier(raw), 3 + Len(WrittenHost(raw)), Len(Hier(raw)))
    ELSE IF HasPrefix(raw, <<SchemeTok>>) /\ ~HasPrefix(Hier(raw), <<"/">>)
    THEN <<>>
    ELSE Hier(raw)

\* C15: IsSameDomain(raw, domain) is true exactly when raw parses and the
\* host written in it is domain, token for token: a subdomain of domain, the
\* domain with a port, an unparsable string and a string without host give
\* false.
C15_SameDomainExact ==
    verdict.fn = "IsSameDomain" =>
        /\ verdict.out = (BadEscape \notin Range(ustr) /\ WrittenHost(ustr) = domain)
        /\ WrittenHost(ustr) = <<"sub.">> \o domain => ~verdict.out
        /\ WrittenHost(ustr) = domain \o <<":8080">> => ~verdict.out
        /\ BadEscape \in Range(ustr) => ~verdict.out
        /\ WrittenHost(ustr) = <<>> => ~verdict.out

C15_Witness ==
    /\ verdict = [fn |-> "IsSameDomain", out |-> TRUE]
    /\ domain = <<"x.com">>
    /\ ustr = <<SchemeTok, "/", "/", "x.com", "/", "p">>

\* C16: IsStaticAsset(raw) is true exactly when raw parses and the path
\* written in it ends with an extension whose lower-cased form is in the
\* denylist; the case of the extension, the query and the fragment do not
\* matter.
C16_StaticAssetExact ==
    verdict.fn = "IsStaticAsset" =>
        verdict.out = (/\ BadEscape \notin Range(ustr)
                       /\ WrittenPath(ustr) # <<>>
                       /\ Last(WrittenPath(ustr)) \in ExtTokens
                       /\ ToLower(Last(WrittenPath(ustr))) \in staticExtensions)

C16_Witness ==
    /\ verdict = [fn |-> "IsStaticAsset", out |-> TRUE]
    /\ ustr = <<SchemeTok, "/", "/", "x.com", "/", "a", ".JPG", "?", "q", ".png">>

\* The concatenation of the sequences of ss, in order.
RECURSIVE Flatten(_)
Flatten(ss) == IF ss = <<>> THEN <<>> ELSE Head(ss) \o Flatten(Tail(ss))

\* What RFC 3986 resolution gives for the hrefs of HrefPool on page: nothing
\* for a skipped prefix, a malformed or an empty href; "../intro" leaves
\* the directory of the page (or stays at the root); "a" is a sibling of the
\* page; "/b" is rooted; an absolute URL stands for itself, less its fragment.
ExpectedLinks(page, href) ==
    CASE href = <<"..", "/", "intro">> -> <<Home \o <<"/", "intro">>>>
      [] href = <<"a">> -> <<SubSeq(page, 1, LastIndexOf(page, "/")) \o <<"a">>>>
      [] href = <<"/", "b">> -> <<Home \o <<"/", "b">>>>
      [] href = Other \o <<"/", "c", "#", "f">> -> <<Other \o <<"/", "c">>>>
      [] OTHER -> <<>>

\* C17: the extractor emits nothing for an href that begins with mailto:,
\* javascript:, tel: or '#' and nothing for a malformed href, whatever the
\* other hrefs of the page; every other href is resolved against the page's
\* URL by relative resolution (https://x.com/docs/ with ../intro gives
\* https://x.com/intro).
C17_ExtractorRules ==
    emitted.done =>
        emitted.links = Flatten([i \in 1..Len(anchors) |->
                                    ExpectedLinks(ustr, anchors[i])])

C17_Witness ==
    /\ emitted.done
    /\ ustr = Home \o <<"/", "docs", "/">>
    /\ anchors = << <<"mailto:", "a">>, <<"..", "/", "intro">>, <<BadEscape>> >>
    /\ emitted.links = <<Home \o <<"/", "intro">>>>

\* An href the extractor accepts: not empty, no skipped prefix, parsable.
Accepted(href) ==
    /\ href # <<>>
    /\ href[1] \notin SkippedPrefixes
    /\ BadEscape \notin Range(href)

\* C18: the extractor's output lists the accepted links in document order
\* of the anchors, one entry per accepted anchor, duplicates kept, and no
\* emitted URL carries a fragment.
C18_ExtractorOrder ==
    emitted.done =>
        /\ Len(emitted.links) = Len(SelectSeq(anchors, Accepted))
        /\ \A i \in 1..Len(emitted.links) :
             /\ <<emitted.links[i]>>
                  = extractLinks(<<SelectSeq(anchors, Accepted)[i]>>, ustr)
             /\ "#" \notin Range(emitted.links[i])

C18_Witness ==
    /\ emitted.done
    /\ ustr = Root
    /\ anchors = << <<"/", "b">>, <<"a">>, <<"/", "b">> >>
    /\ emitted.links = << Home \o <<"/", "b">>, Home \o <<"/", "a">>,
                          Home \o <<"/", "b">> >>

\* The list discoverFromLinks returns when it runs alone from the Queue q
\* on site s with every fetch succeeding.
RECURSIVE RunAlone(_, _, _)
RunAlone(q, s, dom) ==
    IF ~LoopCond(q) THEN QAll(q)
    ELSE Let(LAMBDA q1 : RunAlone(q1, s, dom),
             AddLinks(QAdvance(q), PageLinks(s, QNextURL(q)), dom))

\* C19: two concurrent DiscoverAll calls share no Queue: each BFS run holds
\* a Queue of its own, and under every interleaving the list a call returns
\* is the list it returns when it runs alone on the same site.
C19_NoSharedQueue ==
    /\ \A p, r \in DOMAIN runs :
         (p # r /\ runs[p].q # 0) => runs[p].q # runs[r].q
    /\ \A p \in DOMAIN runs :
         runs[p].pc = "done" =>
            runs[p].result
              = RunAlone(SeedQueue(runs[p].base), runs[p].site, runs[p].dom)

C19_Witness ==
    /\ pc = "conc"
    /\ runs[1].pc = "done"
    /\ runs[2].pc = "done"
    /\ runs[1].site = "mixed"
    /\ runs[2].site = "dense"
    /\ Len(runs[1].result) > 3
    /\ Len(runs[2].result) >= maxPages

\* C21: discoverFromLinks never calls Next on a Queue whose HasNext is
\* false: every Next happens with the cursor before the end of the
\* sequence, so the out-of-range read in Next is never reached.
C21_NextGuarded ==
    /\ [](pc # "panic")
    /\ [][fetched' # fetched
          => (QHasNext(queue) /\ queue.idx < Len(QAll(queue)))]_vars

\* The loop ended because the Queue ran out, not because of the cap.
C21_Witness ==
    /\ pc = "done"
    /\ via = "bfs"
    /\ site = "mixed"
    /\ ~QHasNext(queue)
    /\ QVisited(queue) < maxPages
    /\ Len(fetched) = Len(result)
    /\ Len(fetched) > 3

\* C22: in the BFS fallback pages are fetched in the order of All(): the
\* k-th Fetch is for the k-th element of the returned list; a page's links
\* are enqueued before the next URL is dequeued, behind every URL enqueued
\* before.
C22_FetchOrder ==
    /\ [](via = "bfs" => fetched = SubSeq(QAll(queue), 1, queue.idx))
    /\ []((pc = "done" /\ via = "bfs")
            => fetched = SubSeq(result, 1, Len(fetched)))
    /\ [][pc = "bfs"
          => (/\ Len(QAll(queue')) >= Len(QAll(queue))
              /\ SubSeq(QAll(queue'), 1, Len(QAll(queue))) = QAll(queue)
              /\ queue'.idx <= queue.idx + 1)]_vars

C22_Witness ==
    /\ pc = "done"
    /\ via = "bfs"
    /\ site = "dense"
    /\ baseURL = Root
    /\ failures = 0
    /\ Len(fetched) > 4
    /\ fetched[3] = PageURL(1)
    /\ result[3] = PageURL(1)
    /\ Len(result) > Len(fetched)

\* C24: the list DiscoverAll returns holds no URL more than once, on the
\* sitemap path (a sitemap that lists a page twice, or two URLs with the
\* same normalized form, included) and on the BFS path.
C24_NoDuplicateReturned ==
    (pc = "done" /\ err = "nil") => NoDuplicates(result)

\* The in-scope URLs the page at u links to: the normalized forms of its
\* links that are same-domain and no static asset.
ScopedLinks(s, dom, u) ==
    LET ls == PageLinks(s, u)
        ns == {NormalizeURL(ls[i]) : i \in 1..Len(ls)}
    IN  {n \in ns : IsSameDomain(n, dom) /\ ~IsStaticAsset(n)}

\* The URLs reachable from seen by following in-scope links, grown one
\* layer of the link graph at a time; abandoned at maxPages elements.
RECURSIVE Reach(_, _, _, _)
Reach(s, dom, seen, frontier) ==
    IF frontier = {} \/ Cardinality(seen) >= maxPages THEN seen
    ELSE LET new == UNION {ScopedLinks(s, dom, u) : u \in frontier} \ seen
         IN  Reach(s, dom, seen \cup new, new)

\* The in-scope URLs reachable from the seed of the BFS, the seed included.
Reachable(s, dom, startURL) ==
    Reach(s, dom, {NormalizeURL(startURL)}, {NormalizeURL(startURL)})

\* C23: completeness below the cap: when every fetch succeeds and fewer
\* than maxPages normalized in-scope URLs are reachable from the seed, the
\* BFS returns exactly the reachable set, and fetches each returned URL
\* exactly once.
C23_CompleteBelowCap ==
    (/\ pc = "done"
     /\ via = "bfs"
     /\ failures = 0
     /\ Cardinality(Reachable(site, domain, baseURL)) < maxPages)
    => (/\ Range(result) = Reachable(site, domain, baseURL)
        /\ NoDuplicates(result)
        /\ fetched = result)

\* The errors discoverFromSitemap returns because of the status.
StatusErrors == {StatusError(code) : code \in SitemapStatuses}

\* What discoverFromSitemap does with a response, by the statuses it
\* accepts: a status error exactly for the others; an accepted status with
\* a parseable body gives a nil error and the body's URLs, which DiscoverAll
\* returns when there is one; every other status is a failure and the BFS
\* fallback is entered.
StatusRule(accepted) ==
    (pc = "sitemap_response" /\ resp.kind # "transport")
    => (/\ (smErr' \in StatusErrors) <=> (resp.status \notin accepted)
        /\ (resp.status \in accepted /\ resp.kind = "ok")
             => (/\ smErr' = "nil"
                 /\ KeptNormalized(resp.locs, domain) # <<>>
                      => (/\ via' = "sitemap"
                          /\ result' = KeptNormalized(resp.locs, domain)))
        /\ resp.status \notin accepted
             => (/\ smErr' = StatusError(resp.status)
                 /\ via' = "bfs"
                 /\ result' = <<>>))

\* C26 as stated: discoverFromSitemap rejects a response because of its
\* status exactly when the status is outside the success class 200..299; a
\* 2xx response with a parseable body is parsed and its URLs returned.
C26_RejectsNon2xx == [][StatusRule(200..299)]_vars

\* C26, amended: discoverFromSitemap rejects a response because of its
\* status exactly when the status is not 200 (http.StatusOK); a 200 response
\* with a parseable body is parsed and its URLs returned, and every other
\* status, the other statuses of the success class included, is a failure.
C26_RejectsNon200 == [][StatusRule({StatusOK})]_vars

\* A 201 response with a sitemap in its body was rejected and the BFS
\* fallback entered.
C26_Witness ==
    /\ pc = "bfs"
    /\ via = "bfs"
    /\ smErr = StatusError(201)
    /\ smErr \in StatusErrors
    /\ QAll(queue) = <<NormalizeURL(baseURL)>>
    /\ result = <<>>

\* C25: Add keeps "at most once" only when its lookup and its insert are
\* one step.  On a Queue shared by two workers a URL stands in the sequence
\* twice only if two Add calls for that URL interleaved, one doing its
\* lookup before the other had finished its insert; calls that do not
\* interleave leave the sequence free of duplicates.
C25_DuplicateOnlyByRace ==
    pc \in {"race", "fatal"}
    => \A i, j \in 1..Len(QAll(queue)) :
          (i # j /\ QAll(queue)[i] = QAll(queue)[j])
             => QAll(queue)[i] \in overlap

\* Both workers called Add with the same URL, their lookups and inserts
\* interleaved, and the URL was appended twice.
C25_Witness ==
    /\ pc = "race"
    /\ added = <<Home \o <<"/", "a">>, Home \o <<"/", "a">>>>
    /\ \A p \in RaceProcs : (adders[p].pc = "idle" /\ adders[p].calls = 1)
    /\ QAll(queue) = <<Home \o <<"/", "a">>, Home \o <<"/", "a">>>>
    /\ QVisited(queue) = 1
    /\ overlap = {Home \o <<"/", "a">>}

====
